---- MODULE Spec2Model ----
(***************************************************************************)
(* TileQuet container core: the bulk writer (write_tilequet), the          *)
(* streaming writer (TileQuetWriter), the metadata accessor                *)
(* (read_metadata), the metadata builder (create_metadata) and the         *)
(* validator (validate_tilequet).                                          *)
(*                                                                         *)
(* Representation.                                                         *)
(*  - A Python value is a tagged record [k |-> kind, v |-> value]; kinds   *)
(*    are none, bool, int, float, str, list, tuple, dict.  A float v       *)
(*    stands for v * 10^-6.  A dict is a function from its string keys.    *)
(*  - A text is [k |-> "json", v |-> document] (well-formed JSON, kept as  *)
(*    its document tree) or [k |-> "text", v |-> s] (not JSON).            *)
(*  - A byte string is [k |-> "bytes", v |-> <<b, n>>]: n copies of b.     *)
(*  - A file is a record: its state (absent, open, final), its columns,    *)
(*    its row groups in file order, its sorting columns and its key-value  *)
(*    metadata.  A row is [tile, metadata, data].                          *)
(*  - Tile ids are QUADBIN cells with the 52 index bits scaled down to 4   *)
(*    bits (zoom levels 0..2), same layout and same order.                 *)
(***************************************************************************)
EXTENDS Integers, Sequences, FiniteSets, Bags, TLC

(***************************************************************************)
(* Bounds of the model.                                                    *)
(***************************************************************************)
MaxTiles == 3        \* tiles handed to a writer in one conversion

(***************************************************************************)
(* Program constants.                                                      *)
(***************************************************************************)
METADATA_TILE_ID == 0
TILEQUET_VERSION == "0.1.0"
MB == 1024 * 1024
ROW_OVERHEAD == 8

(***************************************************************************)
(* Python values.                                                          *)
(***************************************************************************)
PyNone == [k |-> "none", v |-> 0]
PyInt(n) == [k |-> "int", v |-> n]
PyFloat(n) == [k |-> "float", v |-> n]
PyStr(s) == [k |-> "str", v |-> s]
PyList(s) == [k |-> "list", v |-> s]
PyTuple(s) == [k |-> "tuple", v |-> s]
PyDict(f) == [k |-> "dict", v |-> f]
EmptyDict == PyDict(<<>>)

Null == [k |-> "null", v |-> 0]
Bytes(b, n) == [k |-> "bytes", v |-> <<b, n>>]
BLen(p) == p.v[2]

\* len(p) is defined: p is a bytes object
HasLen(p) == p.k = "bytes"

\* bool(x)
Truthy(x) ==
    CASE x.k = "none" -> FALSE
      [] x.k = "bool" -> x.v
      [] x.k \in {"int", "float"} -> x.v # 0
      [] x.k = "str" -> x.v # ""
      [] x.k \in {"list", "tuple"} -> Len(x.v) > 0
      [] x.k = "dict" -> DOMAIN x.v # {}
      [] OTHER -> TRUE

\* d.get(key, default) on a dict
DictGet(d, key, default) == IF key \in DOMAIN d.v THEN d.v[key] ELSE default

\* d.update(e) / assignment of keys: right operand wins
DictUpdate(f, g) ==
    [key \in (DOMAIN f) \cup (DOMAIN g) |-> IF key \in DOMAIN g THEN g[key] ELSE f[key]]

(***************************************************************************)
(* json.dumps and json.loads on document trees.                            *)
(***************************************************************************)
RECURSIVE json_dumps_doc(_)
json_dumps_doc(x) ==
    CASE x.k = "none" -> [k |-> "null", v |-> 0]
      [] x.k = "bool" -> [k |-> "boolean", v |-> x.v]
      [] x.k = "int" -> [k |-> "integer", v |-> x.v]
      [] x.k = "float" -> [k |-> "real", v |-> x.v]
      [] x.k = "str" -> [k |-> "string", v |-> x.v]
      [] x.k \in {"list", "tuple"} ->
            [k |-> "array", v |-> [i \in 1..Len(x.v) |-> json_dumps_doc(x.v[i])]]
      [] x.k = "dict" ->
            [k |-> "object", v |-> [key \in DOMAIN x.v |-> json_dumps_doc(x.v[key])]]

json_dumps(x) == [k |-> "json", v |-> json_dumps_doc(x)]

RECURSIVE json_loads_doc(_)
json_loads_doc(d) ==
    CASE d.k = "null" -> PyNone
      [] d.k = "boolean" -> [k |-> "bool", v |-> d.v]
      [] d.k = "integer" -> PyInt(d.v)
      [] d.k = "real" -> PyFloat(d.v)
      [] d.k = "string" -> PyStr(d.v)
      [] d.k = "array" -> PyList([i \in 1..Len(d.v) |-> json_loads_doc(d.v[i])])
      [] d.k = "object" -> PyDict([key \in DOMAIN d.v |-> json_loads_doc(d.v[key])])

\* json.loads(s): the outcome is a value or the exception raised
json_loads(s) ==
    CASE s.k = "json" -> [exc |-> "", value |-> json_loads_doc(s.v)]
      [] s.k = "text" -> [exc |-> "JSONDecodeError", value |-> PyNone]
      [] OTHER -> [exc |-> "TypeError", value |-> PyNone]

(***************************************************************************)
(* QUADBIN cells, scaled: header, zoom, then the interleaved x/y bits      *)
(* left-aligned in 4 bits with the unused low bits set.                    *)
(***************************************************************************)
\* interleave the bits of x and y, x in the even positions
Morton(x, y) ==
    (x % 2) + 2 * (y % 2) + 4 * ((x \div 2) % 2) + 8 * ((y \div 2) % 2)

tile_to_cell(x, y, z) ==
    64 + z * 16 + Morton(x, y) * 4 ^ (2 - z) + (4 ^ (2 - z) - 1)

\* the zoom component of quadbin.cell_to_tile(cell)
cell_zoom(cell) == (cell \div 16) % 4

(***************************************************************************)
(* list.sort(key = tile id): stable, ascending.                            *)
(***************************************************************************)
\* variant: the comparison of the sort reversed
RECURSIVE InsertByTile_desc(_, _)
InsertByTile_desc(s, r) ==
    IF s = <<>> THEN <<r>>
    ELSE IF s[Len(s)].tile >= r.tile THEN Append(s, r)
    ELSE Append(InsertByTile_desc(SubSeq(s, 1, Len(s) - 1), r), s[Len(s)])

RECURSIVE InsertByTile(_, _)
InsertByTile(s, r) ==
    IF s = <<>> THEN <<r>>
    ELSE IF s[Len(s)].tile <= r.tile THEN Append(s, r)
    ELSE Append(InsertByTile(SubSeq(s, 1, Len(s) - 1), r), s[Len(s)])

\* variant: the list is left in arrival order
SortByTile_none(s) == s

RECURSIVE SortByTile(_)
SortByTile(s) ==
    IF s = <<>> THEN <<>>
    ELSE InsertByTile(SortByTile(SubSeq(s, 1, Len(s) - 1)), s[Len(s)])

(***************************************************************************)
(* Writing a table as row groups of at most n rows each.                   *)
(***************************************************************************)
\* variant: only the first row group of a table is written
RowGroups_truncate(rows, n) ==
    IF rows = <<>> THEN <<>>
    ELSE IF Len(rows) <= n THEN <<rows>>
    ELSE <<SubSeq(rows, 1, n)>>

RECURSIVE RowGroups(_, _)
RowGroups(rows, n) ==
    IF rows = <<>> THEN <<>>
    ELSE IF Len(rows) <= n THEN <<rows>>
    ELSE <<SubSeq(rows, 1, n)>> \o RowGroups(SubSeq(rows, n + 1, Len(rows)), n)

RECURSIVE Flatten(_)
Flatten(groups) ==
    IF groups = <<>> THEN <<>> ELSE Head(groups) \o Flatten(Tail(groups))

(***************************************************************************)
(* create_metadata.  args holds the keyword arguments (PyNone for one not  *)
(* given), extra the extension fields, now the creation timestamp.         *)
(***************************************************************************)
DefaultBounds ==
    PyList(<<PyInt(-180), PyFloat(-85051129), PyInt(180), PyFloat(85051129)>>)

DefaultArgs ==
    [tile_type |-> PyStr("raster"), tile_format |-> PyStr("png"),
     bounds |-> PyNone, center |-> PyNone,
     min_zoom |-> PyInt(0), max_zoom |-> PyInt(14), num_tiles |-> PyInt(0),
     name |-> PyNone, description |-> PyNone, attribution |-> PyNone,
     layers |-> PyNone, source_format |-> PyNone]

OptionalKeys == {"name", "description", "attribution", "layers"}

\* variant: the tiling object is left out of the record
create_metadata_notiling(args, extra, now) ==
    LET base ==
            [file_format |-> PyStr("tilequet"),
             version |-> PyStr(TILEQUET_VERSION),
             tile_type |-> args.tile_type,
             tile_format |-> args.tile_format,
             bounds |-> IF Truthy(args.bounds) THEN args.bounds ELSE DefaultBounds,
             bounds_crs |-> PyStr("EPSG:4326"),
             center |-> args.center,
             min_zoom |-> args.min_zoom,
             max_zoom |-> args.max_zoom,
             num_tiles |-> args.num_tiles]
        given == {key \in OptionalKeys : args[key] # PyNone}
        optional == [key \in given |-> args[key]]
        processing ==
            [processing |->
                PyDict([source_format |-> args.source_format,
                        created_by |-> PyStr("tilequet-io"),
                        created_at |-> PyStr(now)])]
    IN PyDict(DictUpdate(DictUpdate(DictUpdate(base, optional), processing), extra))

create_metadata(args, extra, now) ==
    LET base ==
            [file_format |-> PyStr("tilequet"),
             version |-> PyStr(TILEQUET_VERSION),
             tile_type |-> args.tile_type,
             tile_format |-> args.tile_format,
             bounds |-> IF Truthy(args.bounds) THEN args.bounds ELSE DefaultBounds,
             bounds_crs |-> PyStr("EPSG:4326"),
             center |-> args.center,
             min_zoom |-> args.min_zoom,
             max_zoom |-> args.max_zoom,
             num_tiles |-> args.num_tiles,
             tiling |-> PyDict([scheme |-> PyStr("quadbin")])]
        given == {key \in OptionalKeys : args[key] # PyNone}
        optional == [key \in given |-> args[key]]
        processing ==
            [processing |->
                PyDict([source_format |-> args.source_format,
                        created_by |-> PyStr("tilequet-io"),
                        created_at |-> PyStr(now)])]
    IN PyDict(DictUpdate(DictUpdate(DictUpdate(base, optional), processing), extra))

(***************************************************************************)
(* Files.                                                                  *)
(***************************************************************************)
TILEQUET_SCHEMA ==
    <<[name |-> "tile", type |-> "uint64"],
      [name |-> "metadata", type |-> "string"],
      [name |-> "data", type |-> "binary"]>>

VersionKey == [key |-> "tilequet:version", value |-> TILEQUET_VERSION]

NoFile == [state |-> "absent", columns |-> <<>>, groups |-> <<>>,
           sorting |-> <<>>, kv |-> <<>>]

\* the row of a tile and the tile=0 row
DataRow(t) == [tile |-> t.tile, metadata |-> Null, data |-> t.data]
MetadataRow(metadata) ==
    [tile |-> METADATA_TILE_ID, metadata |-> json_dumps(metadata), data |-> Null]

DataRows(s) == [i \in 1..Len(s) |-> DataRow(s[i])]

\* pq.read_table(filepath): all the rows, in file order
read_table(f) == Flatten(f.groups)

IsSentinel(r) == r.tile = METADATA_TILE_ID
IsData(r) == r.tile # METADATA_TILE_ID

ColNames(f) == {f.columns[i].name : i \in 1..Len(f.columns)}
ColType(f, name) ==
    f.columns[CHOOSE i \in 1..Len(f.columns) : f.columns[i].name = name].type

(***************************************************************************)
(* read_metadata(filepath): the outcome is the parsed record or the        *)
(* exception raised.                                                       *)
(***************************************************************************)
Raised(exc, msg) == [exc |-> exc, msg |-> msg, value |-> PyNone]
Returned(value) == [exc |-> "", msg |-> "", value |-> value]

\* variant: the first row of the file is read, without the tile = 0 filter
read_metadata_first(f) ==
    IF f.state # "final" THEN Raised("OSError", "cannot open file")
    ELSE IF ~({"tile", "metadata"} \subseteq ColNames(f))
    THEN Raised("ArrowInvalid", "no match for field")
    ELSE LET table == read_table(f)
         IN IF Len(table) = 0
            THEN Raised("ValueError", "No metadata row (tile=0) found")
            ELSE LET metadata_str == table[1].metadata
                 IN IF metadata_str = Null
                    THEN Raised("ValueError", "Metadata column is NULL in tile=0 row")
                    ELSE LET parsed == json_loads(metadata_str)
                         IN IF parsed.exc # ""
                            THEN Raised(parsed.exc, "json.loads failed")
                            ELSE Returned(parsed.value)

\* variant: the text is parsed without the NULL check
read_metadata_nonull(f) ==
    IF f.state # "final" THEN Raised("OSError", "cannot open file")
    ELSE IF ~({"tile", "metadata"} \subseteq ColNames(f))
    THEN Raised("ArrowInvalid", "no match for field")
    ELSE IF ColType(f, "tile") \notin {"uint64", "int64"}
    THEN Raised("ArrowNotImplementedError", "no kernel matching input types")
    ELSE LET table == SelectSeq(read_table(f), IsSentinel)
         IN IF Len(table) = 0
            THEN Raised("ValueError", "No metadata row (tile=0) found")
            ELSE LET metadata_str == table[1].metadata
                 IN LET parsed == json_loads(metadata_str)
                         IN IF parsed.exc # ""
                            THEN Raised(parsed.exc, "json.loads failed")
                            ELSE Returned(parsed.value)

read_metadata(f) ==
    IF f.state # "final" THEN Raised("OSError", "cannot open file")
    ELSE IF ~({"tile", "metadata"} \subseteq ColNames(f))
    THEN Raised("ArrowInvalid", "no match for field")
    ELSE IF ColType(f, "tile") \notin {"uint64", "int64"}
    THEN Raised("ArrowNotImplementedError", "no kernel matching input types")
    ELSE LET table == SelectSeq(read_table(f), IsSentinel)
         IN IF Len(table) = 0
            THEN Raised("ValueError", "No metadata row (tile=0) found")
            ELSE LET metadata_str == table[1].metadata
                 IN IF metadata_str = Null
                    THEN Raised("ValueError", "Metadata column is NULL in tile=0 row")
                    ELSE LET parsed == json_loads(metadata_str)
                         IN IF parsed.exc # ""
                            THEN Raised(parsed.exc, "json.loads failed")
                            ELSE Returned(parsed.value)

(***************************************************************************)
(* Validation.  A message is [m |-> text, x |-> the value formatted in].   *)
(***************************************************************************)
Msg(m, x) == [m |-> m, x |-> x]

TypeOk(f, name, types) ==
    IF name \notin ColNames(f)
    THEN <<Msg("Missing required column", name)>>
    ELSE IF ColType(f, name) \notin types
    THEN <<Msg("Column has wrong type", name)>>
    ELSE <<>>

validate_schema(f) ==
    [errors |-> TypeOk(f, "tile", {"uint64", "int64"})
                \o TypeOk(f, "metadata", {"string", "utf8", "large_string", "large_utf8"})
                \o TypeOk(f, "data", {"binary", "large_binary"}),
     warnings |-> <<>>]

\* outcome of a validation stage: exc is the exception that escapes it, if any
Stage(errors, warnings, metadata, stats, exc) ==
    [errors |-> errors, warnings |-> warnings, metadata |-> metadata,
     stats |-> stats, exc |-> exc]

MetadataError(m, x) == Stage(<<Msg(m, x)>>, <<>>, PyNone, <<>>, "")

RequiredFields ==
    <<"tile_type", "tile_format", "bounds", "bounds_crs", "min_zoom", "max_zoom", "tiling">>

TileTypes == {PyStr("vector"), PyStr("raster"), PyStr("3d")}

\* the checks of validate_metadata on the parsed value
CheckMetadata(metadata) ==
    IF metadata.k # "dict"
    THEN Stage(<<>>, <<>>, PyNone, <<>>, "AttributeError")
    ELSE
    LET file_format == DictGet(metadata, "file_format", PyNone)
        version == DictGet(metadata, "version", PyNone)
        tile_type == DictGet(metadata, "tile_type", PyNone)
        tiling == DictGet(metadata, "tiling", EmptyDict)
        bounds == DictGet(metadata, "bounds", PyNone)
        missing == SelectSeq(RequiredFields, LAMBDA field : field \notin DOMAIN metadata.v)
        e1 == IF file_format # PyStr("tilequet")
              THEN <<Msg("Expected file_format 'tilequet'", file_format)>> ELSE <<>>
        e2 == IF version = PyNone THEN <<Msg("Missing 'version' in metadata", "")>> ELSE <<>>
        w2 == IF version # PyNone /\ version # PyStr("0.1.0")
              THEN <<Msg("Unknown version", version)>> ELSE <<>>
        e3 == [i \in 1..Len(missing) |-> Msg("Missing required field", missing[i])]
        e4 == IF Truthy(tile_type) /\ tile_type \notin TileTypes
              THEN <<Msg("Invalid tile_type", tile_type)>> ELSE <<>>
        e5 == IF tiling.k = "dict" /\ DictGet(tiling, "scheme", PyNone) # PyStr("quadbin")
              THEN <<Msg("Tiling scheme must be 'quadbin'", DictGet(tiling, "scheme", PyNone))>>
              ELSE <<>>
        e6 == IF Truthy(bounds) /\ bounds.k = "list" /\ Len(bounds.v) # 4
              THEN <<Msg("Bounds must have 4 values", Len(bounds.v))>> ELSE <<>>
    IN Stage(e1 \o e2 \o e3 \o e4 \o e5 \o e6, w2, metadata, <<>>, "")

\* variant: a NULL metadata cell is reported and then checked as an empty record
validate_metadata_lenient(f) ==
    IF "tile" \notin ColNames(f)
    THEN MetadataError("Error reading metadata", "KeyError")
    ELSE IF ColType(f, "tile") \notin {"uint64", "int64"}
    THEN MetadataError("Error reading metadata", "ArrowNotImplementedError")
    ELSE LET tile_zero == SelectSeq(read_table(f), IsSentinel)
         IN IF Len(tile_zero) = 0
            THEN MetadataError("No metadata row found (tile=0)", "")
            ELSE IF "metadata" \notin ColNames(f)
            THEN MetadataError("Error reading metadata", "KeyError")
            ELSE LET metadata_str == tile_zero[1].metadata
                 IN IF metadata_str = Null
                    THEN LET c == CheckMetadata(EmptyDict)
                         IN Stage(<<Msg("Metadata column is NULL in tile=0 row", "")>>
                                      \o c.errors, c.warnings, c.metadata, c.stats, c.exc)
                    ELSE LET parsed == json_loads(metadata_str)
                         IN IF parsed.exc = "JSONDecodeError"
                            THEN MetadataError("Invalid JSON in metadata", parsed.exc)
                            ELSE IF parsed.exc # ""
                            THEN MetadataError("Error reading metadata", parsed.exc)
                            ELSE CheckMetadata(parsed.value)

validate_metadata(f) ==
    IF "tile" \notin ColNames(f)
    THEN MetadataError("Error reading metadata", "KeyError")
    ELSE IF ColType(f, "tile") \notin {"uint64", "int64"}
    THEN MetadataError("Error reading metadata", "ArrowNotImplementedError")
    ELSE LET tile_zero == SelectSeq(read_table(f), IsSentinel)
         IN IF Len(tile_zero) = 0
            THEN MetadataError("No metadata row found (tile=0)", "")
            ELSE IF "metadata" \notin ColNames(f)
            THEN MetadataError("Error reading metadata", "KeyError")
            ELSE LET metadata_str == tile_zero[1].metadata
                 IN IF metadata_str = Null
                    THEN MetadataError("Metadata column is NULL in tile=0 row", "")
                    ELSE LET parsed == json_loads(metadata_str)
                         IN IF parsed.exc = "JSONDecodeError"
                            THEN MetadataError("Invalid JSON in metadata", parsed.exc)
                            ELSE IF parsed.exc # ""
                            THEN MetadataError("Error reading metadata", parsed.exc)
                            ELSE CheckMetadata(parsed.value)

IsInteger(x) == x.k \in {"int", "bool"}
AsInteger(x) == IF x.k = "bool" THEN (IF x.v THEN 1 ELSE 0) ELSE x.v

\* variant: every row is counted at every zoom
ZoomCount_all(rows, z) == Len(rows)

\* number of rows of a sequence whose tile decodes to zoom z
ZoomCount(rows, z) == Len(SelectSeq(rows, LAMBDA r : cell_zoom(r.tile) = z))

\* ascending sequence of the integers lo..hi
RECURSIVE Range(_, _)
Range(lo, hi) == IF lo > hi THEN <<>> ELSE <<lo>> \o Range(lo + 1, hi)

\* the sampled row positions (0-based): first, middle, last
SampleIndices(n) ==
    LET picked == {0, n \div 2, n - 1}
    IN SelectSeq(Range(0, n - 1), LAMBDA i : i \in picked)

validate_tiles_strict(f, metadata) ==
    LET min_zoom == DictGet(metadata, "min_zoom", PyInt(0))
        max_zoom == DictGet(metadata, "max_zoom", PyInt(0))
        data_rows == SelectSeq(read_table(f), LAMBDA r : r.tile > 0)
    IN IF ~(IsInteger(min_zoom) /\ IsInteger(max_zoom))
       THEN Stage(<<>>, <<>>, metadata, <<>>, "TypeError")
       ELSE
       LET zooms == Range(AsInteger(min_zoom), AsInteger(max_zoom))
           empty == SelectSeq(zooms, LAMBDA z : ZoomCount(data_rows, z) = 0)
           w1 == [i \in 1..Len(empty) |-> Msg("Zoom: No tiles found", empty[i])]
           zoom_levels ==
               [z \in AsInteger(min_zoom)..AsInteger(max_zoom) |->
                   [total |-> ZoomCount(data_rows, z)]]
           sample == SampleIndices(Len(data_rows))
           blank == SelectSeq(sample, LAMBDA i :
                        /\ data_rows[i + 1].data # Null
                        /\ BLen(data_rows[i + 1].data) = 0)
           w2 == [i \in 1..Len(blank) |-> Msg("Empty data blob at row", blank[i])]
       IN IF Len(data_rows) > 0 /\ "data" \notin ColNames(f)
          THEN Stage(<<>>, <<>>, metadata, <<>>, "KeyError")
          ELSE IF \E i \in 1..Len(sample) : data_rows[sample[i] + 1].data.k = "int"
          THEN Stage(<<>>, <<>>, metadata, <<>>, "TypeError")
          ELSE Stage(w1, w2, metadata, [zoom_levels |-> zoom_levels], "")

validate_tiles(f, metadata) ==
    LET min_zoom == DictGet(metadata, "min_zoom", PyInt(0))
        max_zoom == DictGet(metadata, "max_zoom", PyInt(0))
        data_rows == SelectSeq(read_table(f), LAMBDA r : r.tile > 0)
    IN IF ~(IsInteger(min_zoom) /\ IsInteger(max_zoom))
       THEN Stage(<<>>, <<>>, metadata, <<>>, "TypeError")
       ELSE
       LET zooms == Range(AsInteger(min_zoom), AsInteger(max_zoom))
           empty == SelectSeq(zooms, LAMBDA z : ZoomCount(data_rows, z) = 0)
           w1 == [i \in 1..Len(empty) |-> Msg("Zoom: No tiles found", empty[i])]
           zoom_levels ==
               [z \in AsInteger(min_zoom)..AsInteger(max_zoom) |->
                   [total |-> ZoomCount(data_rows, z)]]
           sample == SampleIndices(Len(data_rows))
           blank == SelectSeq(sample, LAMBDA i :
                        /\ data_rows[i + 1].data # Null
                        /\ BLen(data_rows[i + 1].data) = 0)
           w2 == [i \in 1..Len(blank) |-> Msg("Empty data blob at row", blank[i])]
       IN IF Len(data_rows) > 0 /\ "data" \notin ColNames(f)
          THEN Stage(<<>>, <<>>, metadata, <<>>, "KeyError")
          ELSE IF \E i \in 1..Len(sample) : data_rows[sample[i] + 1].data.k = "int"
          THEN Stage(<<>>, <<>>, metadata, <<>>, "TypeError")
          ELSE Stage(<<>>, w1 \o w2, metadata, [zoom_levels |-> zoom_levels], "")

\* a ValidationResult, or the exception validate_tilequet lets escape
ValidationResult(is_valid, errors, warnings, metadata, stats) ==
    [exc |-> "", is_valid |-> is_valid, errors |-> errors, warnings |-> warnings,
     metadata |-> metadata, stats |-> stats]

Escapes(exc) ==
    [exc |-> exc, is_valid |-> FALSE, errors |-> <<>>, warnings |-> <<>>,
     metadata |-> PyNone, stats |-> <<>>]

validate_tilequet_strict(f) ==
    IF f.state # "final"
    THEN ValidationResult(FALSE, <<Msg("Failed to read Parquet file", "")>>, <<>>, PyNone, <<>>)
    ELSE
    LET stats0 == [row_count |-> Len(read_table(f)),
                   columns |-> [i \in 1..Len(f.columns) |-> f.columns[i].name]]
        s == validate_schema(f)
        m == validate_metadata(f)
        stats1 == IF Truthy(m.metadata)
                  THEN [version |-> DictGet(m.metadata, "version", PyNone),
                        tile_type |-> DictGet(m.metadata, "tile_type", PyNone),
                        tile_format |-> DictGet(m.metadata, "tile_format", PyNone),
                        zoom_range |-> <<DictGet(m.metadata, "min_zoom", PyNone),
                                         DictGet(m.metadata, "max_zoom", PyNone)>>,
                        num_tiles |-> DictGet(m.metadata, "num_tiles", PyNone)]
                  ELSE <<>>
        t == IF Truthy(m.metadata)
             THEN validate_tiles(f, m.metadata)
             ELSE Stage(<<>>, <<>>, m.metadata, <<>>, "")
        all_errors == s.errors \o m.errors \o t.errors
        all_warnings == s.warnings \o m.warnings \o t.warnings
    IN IF m.exc # "" THEN Escapes(m.exc)
       ELSE IF t.exc # "" THEN Escapes(t.exc)
       ELSE ValidationResult(Len(all_errors) = 0 /\ Len(all_warnings) = 0,
                             all_errors, all_warnings, m.metadata,
                             DictUpdate(DictUpdate(stats0, stats1), t.stats))

validate_tilequet_noshort(f) ==
    IF f.state # "final"
    THEN ValidationResult(FALSE, <<Msg("Failed to read Parquet file", "")>> \o validate_schema(f).errors,
                          <<>>, PyNone, <<>>)
    ELSE
    LET stats0 == [row_count |-> Len(read_table(f)),
                   columns |-> [i \in 1..Len(f.columns) |-> f.columns[i].name]]
        s == validate_schema(f)
        m == validate_metadata(f)
        stats1 == IF Truthy(m.metadata)
                  THEN [version |-> DictGet(m.metadata, "version", PyNone),
                        tile_type |-> DictGet(m.metadata, "tile_type", PyNone),
                        tile_format |-> DictGet(m.metadata, "tile_format", PyNone),
                        zoom_range |-> <<DictGet(m.metadata, "min_zoom", PyNone),
                                         DictGet(m.metadata, "max_zoom", PyNone)>>,
                        num_tiles |-> DictGet(m.metadata, "num_tiles", PyNone)]
                  ELSE <<>>
        t == IF Truthy(m.metadata)
             THEN validate_tiles(f, m.metadata)
             ELSE Stage(<<>>, <<>>, m.metadata, <<>>, "")
        all_errors == s.errors \o m.errors \o t.errors
        all_warnings == s.warnings \o m.warnings \o t.warnings
    IN IF m.exc # "" THEN Escapes(m.exc)
       ELSE IF t.exc # "" THEN Escapes(t.exc)
       ELSE ValidationResult(Len(all_errors) = 0, all_errors, all_warnings, m.metadata,
                             DictUpdate(DictUpdate(stats0, stats1), t.stats))

validate_tilequet(f) ==
    IF f.state # "final"
    THEN ValidationResult(FALSE, <<Msg("Failed to read Parquet file", "")>>, <<>>, PyNone, <<>>)
    ELSE
    LET stats0 == [row_count |-> Len(read_table(f)),
                   columns |-> [i \in 1..Len(f.columns) |-> f.columns[i].name]]
        s == validate_schema(f)
        m == validate_metadata(f)
        stats1 == IF Truthy(m.metadata)
                  THEN [version |-> DictGet(m.metadata, "version", PyNone),
                        tile_type |-> DictGet(m.metadata, "tile_type", PyNone),
                        tile_format |-> DictGet(m.metadata, "tile_format", PyNone),
                        zoom_range |-> <<DictGet(m.metadata, "min_zoom", PyNone),
                                         DictGet(m.metadata, "max_zoom", PyNone)>>,
                        num_tiles |-> DictGet(m.metadata, "num_tiles", PyNone)]
                  ELSE <<>>
        t == IF Truthy(m.metadata)
             THEN validate_tiles(f, m.metadata)
             ELSE Stage(<<>>, <<>>, m.metadata, <<>>, "")
        all_errors == s.errors \o m.errors \o t.errors
        all_warnings == s.warnings \o m.warnings \o t.warnings
    IN IF m.exc # "" THEN Escapes(m.exc)
       ELSE IF t.exc # "" THEN Escapes(t.exc)
       ELSE ValidationResult(Len(all_errors) = 0, all_errors, all_warnings, m.metadata,
                             DictUpdate(DictUpdate(stats0, stats1), t.stats))

(***************************************************************************)
(* Inputs.                                                                 *)
(***************************************************************************)
TileIds == {tile_to_cell(0, 0, 0), tile_to_cell(0, 0, 1), tile_to_cell(1, 1, 1)}

Payloads == {Bytes(120, 100), Bytes(0, MB \div 2 - ROW_OVERHEAD)}

MemoryLimitsMB == {0, 1}
RowGroupSizes == {1, 2}

Timestamps == {"2024-01-01T00:00:00+00:00"}

Bounds4 == PyList(<<PyInt(-180), PyInt(-85), PyInt(180), PyInt(85)>>)
Bounds3 == PyList(<<PyInt(-180), PyInt(-85), PyInt(180)>>)
Layers == PyList(<<PyDict([id |-> PyStr("roads")])>>)

\* keyword arguments the adapters pass to create_metadata
ArgSets ==
    {[DefaultArgs EXCEPT !.max_zoom = PyInt(1)],
     [DefaultArgs EXCEPT !.tile_type = PyStr("vector"), !.tile_format = PyStr("pbf"),
                         !.bounds = Bounds4, !.min_zoom = PyInt(1), !.max_zoom = PyInt(2),
                         !.name = PyStr("Test Tile Set"), !.layers = Layers,
                         !.source_format = PyStr("mbtiles")],
     [DefaultArgs EXCEPT !.tile_type = PyStr("3d"), !.tile_format = PyStr("glb"),
                         !.bounds = Bounds3, !.max_zoom = PyInt(0)],
     [DefaultArgs EXCEPT !.tile_type = PyStr("terrain"), !.max_zoom = PyInt(0)]}

\* extension fields (**extra) an adapter passes
ExtraSets ==
    {[file_format |-> PyStr("other"), tileset_json |-> EmptyDict]}

Built == {create_metadata(a, <<>>, now) : a \in ArgSets, now \in Timestamps}

Extended ==
    {create_metadata(DefaultArgs, e, now) : e \in ExtraSets, now \in Timestamps}

\* the metadata dictionaries handed to a writer
Metadatas == Built \cup Extended \cup {EmptyDict}

(***************************************************************************)
(* State.                                                                  *)
(***************************************************************************)
VARIABLES
    mode,              \* which write path the conversion uses: "bulk" or "stream"
    tiles,             \* bulk: the caller's list of tile dicts
    row_group_size,    \* row_group_size argument
    max_memory_bytes,  \* TileQuetWriter._max_memory_bytes
    buffer,            \* TileQuetWriter._buffer
    buffer_bytes,      \* TileQuetWriter._buffer_bytes
    tile_count,        \* TileQuetWriter._tile_count
    closed,            \* TileQuetWriter._closed
    file,              \* the file at output_path
    result,            \* the latest call and its outcome
    added,             \* history: the tiles handed over, in arrival order
    flushes,           \* history: number of _flush calls that wrote a table
    peak,              \* history: _buffer_bytes in the latest add_tile before its flush
    written,           \* history: the metadata of the completed write, if any
    outputs            \* split-zoom: the files zoom_N.parquet of output_dir, by N

vars == <<mode, tiles, row_group_size, max_memory_bytes, buffer, buffer_bytes,
          tile_count, closed, file, result, added, flushes, peak, written, outputs>>

writer == <<buffer, buffer_bytes, tile_count, closed>>
config == <<mode, row_group_size, max_memory_bytes>>
history == <<added, flushes, peak, written>>

NoResult == [op |-> "", out |-> Returned(PyNone)]
NotWritten == [done |-> FALSE, metadata |-> PyNone]

\* TileQuetWriter.__init__ creates the file with the schema and the version key
Init ==
    /\ mode \in {"bulk", "stream"}
    /\ tiles = <<>>
    /\ row_group_size \in RowGroupSizes
    /\ max_memory_bytes \in {mb * MB : mb \in IF mode = "stream" THEN MemoryLimitsMB ELSE {0}}
    /\ buffer = <<>>
    /\ buffer_bytes = 0
    /\ tile_count = 0
    /\ closed = FALSE
    /\ file = IF mode = "stream"
              THEN [state |-> "open", columns |-> TILEQUET_SCHEMA, groups |-> <<>>,
                    sorting |-> <<>>, kv |-> <<VersionKey>>]
              ELSE NoFile
    /\ result = NoResult
    /\ added = <<>>
    /\ flushes = 0
    /\ peak = [bytes |-> 0, payload |-> 0]
    /\ written = NotWritten
    /\ outputs = <<>>

(***************************************************************************)
(* TileQuetWriter._flush on (buffer, byte estimate, file).                 *)
(***************************************************************************)
\* variant: every flushed table starts with a tile = 0 row
Flush_withSentinel(buf, bytes, f) ==
    IF buf = <<>>
    THEN [buffer |-> buf, buffer_bytes |-> bytes, file |-> f, wrote |-> 0]
    ELSE [buffer |-> <<>>,
          buffer_bytes |-> 0,
          file |-> [f EXCEPT !.groups =
                        @ \o RowGroups(<<MetadataRow(EmptyDict)>>
                                          \o DataRows(SortByTile(buf)), row_group_size)],
          wrote |-> 1]

\* variant: the byte estimate is not reset
Flush_noreset(buf, bytes, f) ==
    IF buf = <<>>
    THEN [buffer |-> buf, buffer_bytes |-> bytes, file |-> f, wrote |-> 0]
    ELSE [buffer |-> <<>>,
          buffer_bytes |-> bytes,
          file |-> [f EXCEPT !.groups =
                        @ \o RowGroups(DataRows(SortByTile(buf)), row_group_size)],
          wrote |-> 1]

\* variant: the buffer is written in arrival order
Flush_unsorted(buf, bytes, f) ==
    IF buf = <<>>
    THEN [buffer |-> buf, buffer_bytes |-> bytes, file |-> f, wrote |-> 0]
    ELSE [buffer |-> <<>>,
          buffer_bytes |-> 0,
          file |-> [f EXCEPT !.groups =
                        @ \o RowGroups(DataRows(buf), row_group_size)],
          wrote |-> 1]

\* variant: the buffer is written as one row group whatever its length
Flush_onegroup(buf, bytes, f) ==
    IF buf = <<>>
    THEN [buffer |-> buf, buffer_bytes |-> bytes, file |-> f, wrote |-> 0]
    ELSE [buffer |-> <<>>,
          buffer_bytes |-> 0,
          file |-> [f EXCEPT !.groups = Append(@, DataRows(SortByTile(buf)))],
          wrote |-> 1]

Flush(buf, bytes, f) ==
    IF buf = <<>>
    THEN [buffer |-> buf, buffer_bytes |-> bytes, file |-> f, wrote |-> 0]
    ELSE [buffer |-> <<>>,
          buffer_bytes |-> 0,
          file |-> [f EXCEPT !.groups =
                        @ \o RowGroups(DataRows(SortByTile(buf)), row_group_size)],
          wrote |-> 1]

\* variant of add_tile: the closed flag is not checked
AddTile_nocheck(tile_id, data) ==
    /\ mode = "stream"
    /\ HasLen(data)
    /\ tile_count < MaxTiles
    /\ Len(read_table(file)) + Len(buffer) < MaxTiles
    /\ LET b1 == Append(buffer, [tile |-> tile_id, data |-> data])
           n1 == buffer_bytes + BLen(data) + ROW_OVERHEAD
           w == IF n1 >= max_memory_bytes
                THEN Flush(b1, n1, file)
                ELSE [buffer |-> b1, buffer_bytes |-> n1, file |-> file, wrote |-> 0]
       IN /\ buffer' = w.buffer
          /\ buffer_bytes' = w.buffer_bytes
          /\ file' = w.file
          /\ flushes' = flushes + w.wrote
          /\ peak' = [bytes |-> n1, payload |-> BLen(data)]
    /\ tile_count' = tile_count + 1
    /\ added' = Append(added, [tile |-> tile_id, data |-> data])
    /\ result' = [op |-> "add_tile", out |-> Returned(PyNone)]
    /\ UNCHANGED <<config, outputs, tiles, closed, written>>

(***************************************************************************)
(* TileQuetWriter.add_tile(tile_id, data)                                  *)
(***************************************************************************)
AddTile(tile_id, data) ==
    /\ mode = "stream"
    /\ IF closed
       THEN /\ result' = [op |-> "add_tile", out |-> Raised("RuntimeError", "Writer is already closed")]
            /\ UNCHANGED <<config, outputs, tiles, writer, file, history>>
       ELSE IF ~HasLen(data)
       THEN /\ Len(read_table(file)) + Len(buffer) < MaxTiles
            /\ buffer' = Append(buffer, [tile |-> tile_id, data |-> data])
            /\ result' = [op |-> "add_tile",
                          out |-> Raised("TypeError", "object has no len()")]
            /\ UNCHANGED <<config, outputs, tiles, buffer_bytes, tile_count, closed,
                           file, history>>
       ELSE /\ tile_count < MaxTiles
            /\ Len(read_table(file)) + Len(buffer) < MaxTiles
            /\ LET b1 == Append(buffer, [tile |-> tile_id, data |-> data])
                   n1 == buffer_bytes + BLen(data) + ROW_OVERHEAD
                   w == IF n1 >= max_memory_bytes
                        THEN Flush(b1, n1, file)
                        ELSE [buffer |-> b1, buffer_bytes |-> n1, file |-> file, wrote |-> 0]
               IN /\ buffer' = w.buffer
                  /\ buffer_bytes' = w.buffer_bytes
                  /\ file' = w.file
                  /\ flushes' = flushes + w.wrote
                  /\ peak' = [bytes |-> n1, payload |-> BLen(data)]
            /\ tile_count' = tile_count + 1
            /\ added' = Append(added, [tile |-> tile_id, data |-> data])
            /\ result' = [op |-> "add_tile", out |-> Returned(PyNone)]
            /\ UNCHANGED <<config, outputs, tiles, closed, written>>

(***************************************************************************)
(* TileQuetWriter.close(metadata)                                          *)
(***************************************************************************)
\* variant of close: the tile=0 row is written before the remaining rows
Close_sentinelFirst(metadata) ==
    /\ mode = "stream"
    /\ IF closed
       THEN /\ result' = [op |-> "close", out |-> Raised("RuntimeError", "Writer is already closed")]
            /\ UNCHANGED <<config, outputs, tiles, writer, file, history>>
       ELSE /\ LET w == Flush(buffer, buffer_bytes,
                             [file EXCEPT !.groups =
                                 @ \o RowGroups(<<MetadataRow(metadata)>>, 1)])
               IN /\ buffer' = w.buffer
                  /\ buffer_bytes' = w.buffer_bytes
                  /\ file' = [w.file EXCEPT !.state = "final"]
                  /\ flushes' = flushes + w.wrote
            /\ closed' = TRUE
            /\ written' = [done |-> TRUE, metadata |-> metadata]
            /\ result' = [op |-> "close", out |-> Returned(PyNone)]
            /\ UNCHANGED <<config, outputs, tiles, tile_count, added, peak>>


Close(metadata) ==
    /\ mode = "stream"
    /\ IF closed
       THEN /\ result' = [op |-> "close", out |-> Raised("RuntimeError", "Writer is already closed")]
            /\ UNCHANGED <<config, outputs, tiles, writer, file, history>>
       ELSE /\ LET w == Flush(buffer, buffer_bytes, file)
               IN /\ buffer' = w.buffer
                  /\ buffer_bytes' = w.buffer_bytes
                  /\ file' = [w.file EXCEPT
                                !.groups = @ \o RowGroups(<<MetadataRow(metadata)>>, 1),
                                !.state = "final"]
                  /\ flushes' = flushes + w.wrote
            /\ closed' = TRUE
            /\ written' = [done |-> TRUE, metadata |-> metadata]
            /\ result' = [op |-> "close", out |-> Returned(PyNone)]
            /\ UNCHANGED <<config, outputs, tiles, tile_count, added, peak>>

(***************************************************************************)
(* TileQuetWriter.__exit__                                                 *)
(***************************************************************************)
\* variant of __exit__: the buffered rows are flushed before the file is closed
Exit_flush ==
    /\ mode = "stream"
    /\ IF ~closed
       THEN /\ LET w == Flush(buffer, buffer_bytes, file)
               IN /\ buffer' = w.buffer
                  /\ buffer_bytes' = w.buffer_bytes
                  /\ file' = [w.file EXCEPT !.state = "final"]
                  /\ flushes' = flushes + w.wrote
            /\ closed' = TRUE
       ELSE UNCHANGED <<file, closed, buffer, buffer_bytes, flushes>>
    /\ result' = [op |-> "__exit__", out |-> Returned(PyNone)]
    /\ UNCHANGED <<config, outputs, tiles, tile_count, added, peak, written>>

Exit ==
    /\ mode = "stream"
    /\ IF ~closed
       THEN /\ file' = [file EXCEPT !.state = "final"]
            /\ closed' = TRUE
       ELSE UNCHANGED <<file, closed>>
    /\ result' = [op |-> "__exit__", out |-> Returned(PyNone)]
    /\ UNCHANGED <<config, outputs, tiles, buffer, buffer_bytes, tile_count, history>>

(***************************************************************************)
(* Bulk path: the adapter collects its tiles, then calls write_tilequet.   *)
(***************************************************************************)
Produce(tile_id, data) ==
    /\ mode = "bulk"
    /\ file.state = "absent"
    /\ Len(tiles) < MaxTiles
    /\ tiles' = Append(tiles, [tile |-> tile_id, data |-> data])
    /\ added' = Append(added, [tile |-> tile_id, data |-> data])
    /\ UNCHANGED <<config, outputs, writer, file, result, flushes, peak, written>>

\* variant of write_tilequet: a sorted copy is written, the list is left alone
WriteTilequet_copy(metadata) ==
    /\ mode = "bulk"
    /\ file.state = "absent"
    /\ LET sorted == SortByTile(tiles)
           rows == <<MetadataRow(metadata)>> \o DataRows(sorted)
       IN /\ tiles' = tiles
          /\ file' = [state |-> "final", columns |-> TILEQUET_SCHEMA,
                      groups |-> RowGroups(rows, row_group_size),
                      sorting |-> <<"tile">>, kv |-> <<VersionKey>>]
    /\ written' = [done |-> TRUE, metadata |-> metadata]
    /\ result' = [op |-> "write_tilequet", out |-> Returned(PyNone)]
    /\ UNCHANGED <<config, outputs, writer, added, flushes, peak>>

WriteTilequet(metadata) ==
    /\ mode = "bulk"
    /\ file.state = "absent"
    /\ LET sorted == SortByTile(tiles)
           rows == <<MetadataRow(metadata)>> \o DataRows(sorted)
       IN /\ tiles' = sorted
          /\ file' = [state |-> "final", columns |-> TILEQUET_SCHEMA,
                      groups |-> RowGroups(rows, row_group_size),
                      sorting |-> <<"tile">>, kv |-> <<VersionKey>>]
    /\ written' = [done |-> TRUE, metadata |-> metadata]
    /\ result' = [op |-> "write_tilequet", out |-> Returned(PyNone)]
    /\ UNCHANGED <<config, outputs, writer, added, flushes, peak>>

(***************************************************************************)
(* Inspection of the file once no writer holds it.                         *)
(***************************************************************************)
ReadMetadata ==
    /\ file.state # "open"
    /\ result' = [op |-> "read_metadata", out |-> read_metadata(file)]
    /\ UNCHANGED <<config, outputs, tiles, writer, file, history>>

Validate ==
    /\ file.state # "open"
    /\ result' = [op |-> "validate_tilequet", out |-> validate_tilequet(file)]
    /\ UNCHANGED <<config, outputs, tiles, writer, file, history>>

Next ==
    \/ \E t \in TileIds, d \in Payloads : AddTile(t, d)
    \/ \E m \in Metadatas : Close(m)
    \/ Exit
    \/ \E t \in TileIds, d \in Payloads : Produce(t, d)
    \/ \E m \in Metadatas : WriteTilequet(m)
    \/ ReadMetadata
    \/ Validate

Spec == Init /\ [][Next]_vars

(***************************************************************************)
(* A streaming writer whose caller may pass a payload that is not bytes    *)
(* (None).                                                                 *)
(***************************************************************************)
UntypedPayloads == Payloads \cup {Null}

InitUntyped == Init /\ mode = "stream"

NextUntyped ==
    \/ \E t \in TileIds, d \in UntypedPayloads : AddTile(t, d)
    \/ \E m \in Metadatas : Close(m)
    \/ Exit

SpecUntyped == InitUntyped /\ [][NextUntyped]_vars

(***************************************************************************)
(* Inspection of arbitrary files: any file that opens as a table, the      *)
(* missing file included.                                                  *)
(***************************************************************************)
Column(name, type) ==
    IF type = "absent" THEN <<>> ELSE <<[name |-> name, type |-> type]>>

GarbageText == [k |-> "text", v |-> "not json"]

\* values a tile=0 row's metadata text can parse to
ParsedValues ==
    Built \cup
    {EmptyDict, PyList(<<>>), PyNone, PyInt(5), PyStr("x"),
     create_metadata([DefaultArgs EXCEPT !.min_zoom = PyStr("0")], <<>>, "t"),
     create_metadata([DefaultArgs EXCEPT !.tile_type = PyStr(""), !.max_zoom = PyInt(1)],
                     [tiling |-> PyStr("quadbin")], "t")}

MetadataCells(type) ==
    CASE type = "string" -> {Null, GarbageText} \cup {json_dumps(x) : x \in ParsedValues}
      [] type = "int64" -> {Null, [k |-> "int", v |-> 5]}
      [] OTHER -> {Null}

DataCells(type) ==
    CASE type = "binary" -> {Bytes(120, 100), Bytes(0, 0)}
      [] type = "int64" -> {[k |-> "int", v |-> 7]}
      [] OTHER -> {Null}

\* the data rows of a file: none, one, or several out of id order
TileRowSets(cells) ==
    {<<>>}
    \cup {<<[tile |-> tile_to_cell(0, 0, 1), metadata |-> Null, data |-> c]>> : c \in cells}
    \cup {<<[tile |-> tile_to_cell(1, 1, 1), metadata |-> Null, data |-> c],
            [tile |-> tile_to_cell(0, 0, 0), metadata |-> Null, data |-> c]>> : c \in cells}
    \cup {<<[tile |-> tile_to_cell(1, 1, 1), metadata |-> Null, data |-> c],
            [tile |-> tile_to_cell(0, 0, 0), metadata |-> Null, data |-> c],
            [tile |-> tile_to_cell(0, 0, 1), metadata |-> Null, data |-> c]>> : c \in cells}

SentinelRowSets(cells) ==
    {<<>>} \cup {<<[tile |-> METADATA_TILE_ID, metadata |-> c, data |-> Null]>> : c \in cells}

\* the tile=0 row, when there is one, comes first or last
FilesWith(tt, mt, dt) ==
    UNION {{[state |-> "final",
             columns |-> Column("tile", tt) \o Column("metadata", mt) \o Column("data", dt),
             groups |-> RowGroups(rows, 2),
             sorting |-> <<>>, kv |-> <<>>] : rows \in {head \o body, body \o head}} :
        head \in SentinelRowSets(MetadataCells(mt)),
        body \in TileRowSets(DataCells(dt))}

\* a file whose bytes are not a Parquet file
CorruptFile == [NoFile EXCEPT !.state = "corrupt"]

ArbitraryFiles ==
    {NoFile, CorruptFile} \cup
    UNION {FilesWith(tt, mt, dt) :
              tt \in {"absent", "uint64", "int64", "string"},
              mt \in {"absent", "string", "int64"},
              dt \in {"absent", "binary", "int64"}}

InitFiles ==
    /\ mode = "inspect"
    /\ tiles = <<>>
    /\ row_group_size \in RowGroupSizes
    /\ max_memory_bytes = 0
    /\ buffer = <<>>
    /\ buffer_bytes = 0
    /\ tile_count = 0
    /\ closed = FALSE
    /\ file \in ArbitraryFiles
    /\ result = NoResult
    /\ added = <<>>
    /\ flushes = 0
    /\ peak = [bytes |-> 0, payload |-> 0]
    /\ written = NotWritten
    /\ outputs = <<>>

(***************************************************************************)
(* split-zoom: one file per zoom level of the data rows, written to        *)
(* output_dir.  The outcome is the exit code, the exception that ended the *)
(* command ("" if none) and the files written.                             *)
(***************************************************************************)
SplitOutcome(exc, code, files) == [exc |-> exc, code |-> code, files |-> files]

\* the zoom levels quadbin.cell_to_tile decodes from the tile ids
ZoomsOf(rows) == {cell_zoom(rows[i].tile) : i \in 1..Len(rows)}

\* variant: a level takes the rows of the levels below it too
ZoomRows_upto(rows, zoom) == SelectSeq(rows, LAMBDA r : cell_zoom(r.tile) <= zoom)

\* data_table.take(zoom_indices[zoom])
ZoomRows(rows, zoom) == SelectSeq(rows, LAMBDA r : cell_zoom(r.tile) = zoom)

\* variant: num_tiles keeps the count of the source
ZoomMetadata_keepcount(metadata_json, zoom, count) ==
    PyDict(DictUpdate(metadata_json.v,
                      [min_zoom |-> PyInt(zoom), max_zoom |-> PyInt(zoom)]))

\* the copy of the source metadata with the three keys assigned
ZoomMetadata(metadata_json, zoom, count) ==
    PyDict(DictUpdate(metadata_json.v,
                      [min_zoom |-> PyInt(zoom), max_zoom |-> PyInt(zoom),
                       num_tiles |-> PyInt(count)]))

\* the file zoom_N.parquet: the metadata row, then the rows sorted by tile
ZoomFile(metadata_json, zoom, rows, rgs) ==
    LET zoom_table == SortByTile(rows)
        zoom_metadata == ZoomMetadata(metadata_json, zoom, Len(rows))
        final_table == <<MetadataRow(zoom_metadata)>> \o zoom_table
    IN [state |-> "final", columns |-> TILEQUET_SCHEMA,
        groups |-> RowGroups(final_table, rgs),
        sorting |-> <<"tile">>, kv |-> <<>>]

\* variant: a source without a tile=0 row is split with an empty record
split_zoom_lenient(f, rgs) ==
    IF f.state = "absent" THEN SplitOutcome("UsageError", 2, <<>>)
    ELSE IF f.state # "final" THEN SplitOutcome("ArrowInvalid", 1, <<>>)
    ELSE IF "tile" \notin ColNames(f) THEN SplitOutcome("KeyError", 1, <<>>)
    ELSE IF ColType(f, "tile") \notin {"uint64", "int64"}
    THEN SplitOutcome("ArrowNotImplementedError", 1, <<>>)
    ELSE
    LET table == read_table(f)
        metadata_table == SelectSeq(table, IsSentinel)
        data_table == SelectSeq(table, IsData)
        zooms == ZoomsOf(data_table)
    IN IF "metadata" \notin ColNames(f) THEN SplitOutcome("KeyError", 1, <<>>)
       ELSE
       LET parsed == IF Len(metadata_table) = 0
                     THEN [exc |-> "", value |-> EmptyDict]
                     ELSE json_loads(metadata_table[1].metadata)
           metadata_json == parsed.value
       IN IF parsed.exc # "" THEN SplitOutcome(parsed.exc, 1, <<>>)
          ELSE IF zooms = {} THEN SplitOutcome("", 0, <<>>)
          ELSE IF metadata_json.k \notin {"dict", "list"}
          THEN SplitOutcome("AttributeError", 1, <<>>)
          ELSE IF metadata_json.k = "list" THEN SplitOutcome("TypeError", 1, <<>>)
          ELSE IF f.columns # TILEQUET_SCHEMA THEN SplitOutcome("ArrowInvalid", 1, <<>>)
          ELSE SplitOutcome("", 0,
                   [zoom \in zooms |->
                       ZoomFile(metadata_json, zoom, ZoomRows(data_table, zoom), rgs)])

split_zoom(f, rgs) ==
    IF f.state = "absent" THEN SplitOutcome("UsageError", 2, <<>>)
    ELSE IF f.state # "final" THEN SplitOutcome("ArrowInvalid", 1, <<>>)
    ELSE IF "tile" \notin ColNames(f) THEN SplitOutcome("KeyError", 1, <<>>)
    ELSE IF ColType(f, "tile") \notin {"uint64", "int64"}
    THEN SplitOutcome("ArrowNotImplementedError", 1, <<>>)
    ELSE
    LET table == read_table(f)
        metadata_table == SelectSeq(table, IsSentinel)
        data_table == SelectSeq(table, IsData)
        zooms == ZoomsOf(data_table)
    IN IF Len(metadata_table) = 0 THEN SplitOutcome("SystemExit", 1, <<>>)
       ELSE IF "metadata" \notin ColNames(f) THEN SplitOutcome("KeyError", 1, <<>>)
       ELSE
       LET parsed == json_loads(metadata_table[1].metadata)
           metadata_json == parsed.value
       IN IF parsed.exc # "" THEN SplitOutcome(parsed.exc, 1, <<>>)
          ELSE IF zooms = {} THEN SplitOutcome("", 0, <<>>)
          ELSE IF metadata_json.k \notin {"dict", "list"}
          THEN SplitOutcome("AttributeError", 1, <<>>)
          ELSE IF metadata_json.k = "list" THEN SplitOutcome("TypeError", 1, <<>>)
          ELSE IF f.columns # TILEQUET_SCHEMA THEN SplitOutcome("ArrowInvalid", 1, <<>>)
          ELSE SplitOutcome("", 0,
                   [zoom \in zooms |->
                       ZoomFile(metadata_json, zoom, ZoomRows(data_table, zoom), rgs)])

Split ==
    /\ mode = "inspect"
    /\ LET r == split_zoom(file, row_group_size)
       IN /\ result' = [op |-> "split_zoom", out |-> [exc |-> r.exc, code |-> r.code]]
          /\ outputs' = DictUpdate(outputs, r.files)
    /\ UNCHANGED <<config, tiles, writer, file, history>>

NextFiles ==
    \/ ReadMetadata
    \/ Validate
    \/ Split

SpecFiles == InitFiles /\ [][NextFiles]_vars

(***************************************************************************)
(* Building a metadata record: create_metadata applied to keyword          *)
(* arguments and extension fields.                                         *)
(***************************************************************************)
Center == PyList(<<PyInt(0), PyInt(0), PyInt(1)>>)

\* keyword arguments: each optional one given or not
BuildArgs ==
    {[DefaultArgs EXCEPT !.tile_type = kind[1], !.tile_format = kind[2],
                         !.bounds = bounds, !.center = center, !.name = name,
                         !.description = description, !.attribution = attribution,
                         !.layers = layers] :
        kind \in {<<PyStr("raster"), PyStr("png")>>, <<PyStr("vector"), PyStr("pbf")>>,
                  <<PyStr("3d"), PyStr("glb")>>},
        bounds \in {PyNone, Bounds4},
        center \in {PyNone, Center},
        name \in {PyNone, PyStr("Test")},
        description \in {PyNone, PyStr("A test tileset")},
        attribution \in {PyNone, PyStr("(c) OSM")},
        layers \in {PyNone, Layers}}

\* extension fields (**extra): none, a derived-format object, or keys that
\* are also built-in keys
BuildExtras ==
    {<<>>,
     [tileset_json |-> EmptyDict],
     [file_format |-> PyStr("other")],
     [version |-> PyStr("9.9.9"), source_url |-> PyStr("http://x")]}

\* a conversion builds its record once
CreateMetadata(args, extra, now) ==
    /\ mode = "build"
    /\ result = NoResult
    /\ result' = [op |-> "create_metadata", out |-> Returned(create_metadata(args, extra, now)),
                  args |-> args, extra |-> extra]
    /\ UNCHANGED <<config, outputs, tiles, writer, file, history>>

InitMeta ==
    /\ mode = "build"
    /\ tiles = <<>>
    /\ row_group_size \in RowGroupSizes
    /\ max_memory_bytes = 0
    /\ buffer = <<>>
    /\ buffer_bytes = 0
    /\ tile_count = 0
    /\ closed = FALSE
    /\ file = NoFile
    /\ result = NoResult
    /\ added = <<>>
    /\ flushes = 0
    /\ peak = [bytes |-> 0, payload |-> 0]
    /\ written = NotWritten
    /\ outputs = <<>>

NextMeta ==
    \E args \in BuildArgs, extra \in BuildExtras, now \in Timestamps :
        CreateMetadata(args, extra, now)

SpecMeta == InitMeta /\ [][NextMeta]_vars

(***************************************************************************)
(* Properties.                                                             *)
(***************************************************************************)
Rows == read_table(file)
SentinelRows == SelectSeq(Rows, IsSentinel)
TileRows == SelectSeq(Rows, IsData)

Ascending(rows) ==
    \A i \in 1..(Len(rows) - 1) : rows[i].tile <= rows[i + 1].tile
StrictlyAscending(rows) ==
    \A i \in 1..(Len(rows) - 1) : rows[i].tile < rows[i + 1].tile

DistinctIds(s) == \A i, j \in 1..Len(s) : s[i].tile = s[j].tile => i = j

\* the bag of the elements of a sequence
BagOf(s) ==
    [x \in {s[i] : i \in 1..Len(s)} |-> Cardinality({i \in 1..Len(s) : s[i] = x})]

StreamDone == mode = "stream" /\ written.done
BulkDone == mode = "bulk" /\ written.done

\* C1: every container a writer has completed (write_tilequet returned, or
\* close(metadata) returned after any adds and flushes) holds exactly one
\* row with tile = 0.
C1_OneSentinel ==
    written.done => Len(SentinelRows) = 1

C1_Witness ==
    /\ StreamDone
    /\ flushes >= 2
    /\ Len(SentinelRows) = 1

\* C2 as stated: in a bulk-written container the tile=0 row is first and
\* the other rows are strictly ascending by id, for all inputs.
C2_StrictForAllInputs ==
    BulkDone => /\ Rows[1].tile = METADATA_TILE_ID
                /\ StrictlyAscending(Tail(Rows))

\* C2 amended: the tile=0 row is first and the other rows are the input
\* tiles in ascending (non-decreasing) id order; strictly ascending
\* whenever the input ids are distinct.
C2_Ascending ==
    BulkDone => /\ Rows[1].tile = METADATA_TILE_ID
                /\ Len(SentinelRows) = 1
                /\ Ascending(Tail(Rows))
                /\ BagOf(Tail(Rows)) = BagOf(DataRows(added))
                /\ DistinctIds(added) => StrictlyAscending(Tail(Rows))

C2_Witness ==
    /\ BulkDone
    /\ Len(added) = 3
    /\ DistinctIds(added)
    /\ added[1].tile > added[3].tile /\ added[3].tile > added[2].tile
    /\ [i \in 1..4 |-> Rows[i].tile] =
           <<0, added[2].tile, added[3].tile, added[1].tile>>

\* C3: read_metadata on a container completed with metadata m returns a
\* record equal to m, for either writer, any rows and any flush pattern.
C3_RoundTrip ==
    (written.done /\ result.op = "read_metadata")
        => result.out = Returned(written.metadata)

C3_Witness ==
    /\ StreamDone
    /\ flushes >= 2
    /\ result.op = "read_metadata"
    /\ written.metadata \in Built
    /\ result.out.value = written.metadata

\* C4: tile_count equals the number of successful add_tile calls, and after
\* close the file holds every added (id, payload) pair exactly once plus
\* the tile=0 row.
C4_CountAndRows ==
    mode = "stream" =>
        /\ tile_count = Len(added)
        /\ written.done =>
              /\ Len(Rows) = Len(added) + 1
              /\ BagOf(TileRows) = BagOf(DataRows(added))

C4_Witness ==
    /\ StreamDone
    /\ flushes >= 2
    /\ tile_count = 3
    /\ ~DistinctIds(added)
    /\ Len(Rows) = 4

\* C5: once close(metadata) has completed, the session stays closed, the
\* writer and the file no longer change, and every later add_tile or close
\* call raises RuntimeError.
C5_ClosedStaysClosed ==
    [][StreamDone =>
          /\ closed'
          /\ file' = file
          /\ UNCHANGED <<buffer, buffer_bytes, tile_count>>
          /\ result'.op \in {"add_tile", "close"} => result'.out.exc = "RuntimeError"]_vars

C5_Witness ==
    /\ StreamDone
    /\ result.op = "add_tile"
    /\ result.out.exc = "RuntimeError"

\* C6 as stated: the byte estimate never exceeds the threshold plus the
\* length of one payload, also inside add_tile before its flush.
C6_ThresholdPlusPayload ==
    mode = "stream" =>
        /\ peak.bytes <= max_memory_bytes + peak.payload
        /\ buffer_bytes <= max_memory_bytes

\* C6 amended: the byte estimate never exceeds the threshold plus one
\* payload's length plus the 8-byte per-row overhead; between calls it is 0
\* or below the threshold.
C6_ThresholdPlusRow ==
    mode = "stream" =>
        /\ peak.bytes <= max_memory_bytes + peak.payload + ROW_OVERHEAD
        /\ buffer_bytes = 0 \/ buffer_bytes < max_memory_bytes

C6_Witness ==
    /\ mode = "stream"
    /\ flushes >= 2
    /\ peak.bytes = max_memory_bytes + peak.payload + ROW_OVERHEAD

\* C7: every row group of a streaming-written file is ascending by id.
C7_GroupsAscending ==
    mode = "stream" => \A g \in 1..Len(file.groups) : Ascending(file.groups[g])

C7_Witness ==
    /\ StreamDone
    /\ Len(added) >= 2
    /\ added[1].tile > added[2].tile
    /\ \E g \in 1..Len(file.groups) :
          /\ Len(file.groups[g]) = 2
          /\ file.groups[g][1].tile = added[2].tile
          /\ file.groups[g][2].tile = added[1].tile

\* C8 as stated: every session with two or more flushes yields a file whose
\* data rows are not globally ascending.
C8_FlushesBreakOrder ==
    (StreamDone /\ flushes >= 2) => ~Ascending(TileRows)

\* C8 amended: when at most one flush wrote data (no flush before the one
\* that emptied the buffer for good) the data rows are ascending across the
\* whole file; with two or more flushes they are ascending within each row
\* group and may or may not be ascending across row groups.
C8_SingleFlushAscending ==
    (StreamDone /\ flushes <= 1) => Ascending(TileRows)

C8_Witness ==
    /\ StreamDone
    /\ flushes = 1
    /\ Len(added) = 3
    /\ added[1].tile > added[2].tile
    /\ Ascending(TileRows)

BoundsOk(args) ==
    ~Truthy(args.bounds) \/ (args.bounds.k = "list" /\ Len(args.bounds.v) = 4)

TypedArgs == {a \in ArgSets : a.tile_type \in TileTypes}

Accepted(out) == out.exc = "" /\ out.is_valid /\ out.errors = <<>>

\* C9 as stated: a written container whose metadata comes from
\* create_metadata with a tile_type of the enumeration and no extension
\* fields validates without errors.
C9_BuiltValidates ==
    (written.done /\ result.op = "validate_tilequet"
        /\ written.metadata \in {create_metadata(a, <<>>, now) :
                                    a \in TypedArgs, now \in Timestamps})
    => Accepted(result.out)

\* C9 amended: ... and whose bounds argument is omitted or a list of
\* exactly 4 values (and whose zooms are integers) validates without
\* errors.
C9_BuiltWithBoundsValidates ==
    (written.done /\ result.op = "validate_tilequet"
        /\ written.metadata \in
              {create_metadata(a, <<>>, now) :
                  a \in {b \in TypedArgs : /\ BoundsOk(b)
                                           /\ IsInteger(b.min_zoom)
                                           /\ IsInteger(b.max_zoom)},
                  now \in Timestamps})
    => Accepted(result.out)

C9_Witness ==
    /\ StreamDone
    /\ flushes >= 2
    /\ result.op = "validate_tilequet"
    /\ written.metadata \in Built
    /\ Accepted(result.out)

\* C10: validate_tilequet returns a ValidationResult for every file; no
\* exception escapes it.
C10_NeverRaises ==
    result.op = "validate_tilequet" => result.out.exc = ""

Validated == result.op = "validate_tilequet"

\* C11: every ValidationResult validate_tilequet returns, the one for a file
\* that cannot be opened included, has is_valid true exactly when its error
\* list is empty; warnings do not enter into is_valid.
C11_ValidIffNoErrors ==
    (Validated /\ result.out.exc = "")
    => (result.out.is_valid <=> result.out.errors = <<>>)

C11_Witness ==
    /\ Validated
    /\ result.out.exc = ""
    /\ result.out.warnings # <<>>
    /\ result.out.errors = <<>>
    /\ result.out.is_valid

\* C12: for a file that cannot be opened as a table, validate_tilequet
\* returns a result with exactly one error, is_valid false, no warnings, no
\* metadata and empty stats: no schema, metadata or tile stage has run.
C12_OpenFailure ==
    (Validated /\ file.state # "final")
    => /\ result.out.exc = ""
       /\ ~result.out.is_valid
       /\ Len(result.out.errors) = 1
       /\ result.out.errors[1].m = "Failed to read Parquet file"
       /\ result.out.warnings = <<>>
       /\ result.out.metadata = PyNone
       /\ result.out.stats = <<>>

C12_Witness ==
    /\ Validated
    /\ file.state = "corrupt"
    /\ Len(result.out.errors) = 1
    /\ ~result.out.is_valid

\* C13: for every file that opens and has no data column, one with a valid
\* tile=0 row and data rows included, validate_tilequet returns a result
\* that is not valid and has the schema error naming the data column.
C13_MissingDataReported ==
    (Validated /\ file.state = "final" /\ "data" \notin ColNames(file))
    => /\ result.out.exc = ""
       /\ ~result.out.is_valid
       /\ \E i \in 1..Len(result.out.errors) :
              result.out.errors[i] = Msg("Missing required column", "data")

\* the metadata a file declares: the parsed text of its first tile=0 row
Declared == read_metadata(file)

DeclaresZooms ==
    /\ Declared.exc = ""
    /\ Declared.value.k = "dict"
    /\ {"min_zoom", "max_zoom"} \subseteq DOMAIN Declared.value.v
    /\ Declared.value.v.min_zoom.k = "int"
    /\ Declared.value.v.max_zoom.k = "int"

DeclaredZooms == Declared.value.v.min_zoom.v .. Declared.value.v.max_zoom.v

NoTilesWarnings(z) ==
    {i \in 1..Len(result.out.warnings) :
        result.out.warnings[i] = Msg("Zoom: No tiles found", z)}

\* C14: for a file with the three container columns that declares integer
\* min_zoom and max_zoom, validate_tilequet returns a result that has, for
\* every zoom level of the declared range without a tile, exactly one
\* warning naming that level, and no error for it: the errors are those of
\* the metadata stage alone, so a level without tiles never makes
\* is_valid false.
C14_EmptyZoomWarns ==
    (Validated /\ validate_schema(file).errors = <<>> /\ DeclaresZooms)
    => /\ result.out.exc = ""
       /\ \A z \in DeclaredZooms :
              ZoomCount(TileRows, z) = 0 => Cardinality(NoTilesWarnings(z)) = 1
       /\ result.out.errors = validate_metadata(file).errors
       /\ result.out.is_valid <=> validate_metadata(file).errors = <<>>

C14_Witness ==
    /\ Validated
    /\ validate_schema(file).errors = <<>>
    /\ DeclaresZooms
    /\ \E z \in DeclaredZooms : ZoomCount(TileRows, z) = 0 /\ NoTilesWarnings(z) # {}
    /\ \E z \in DeclaredZooms : ZoomCount(TileRows, z) > 0
    /\ result.out.is_valid

\* a file read_metadata can filter: it opens, has an integer tile column
\* and a string metadata column
Filterable ==
    /\ file.state = "final"
    /\ {"tile", "metadata"} \subseteq ColNames(file)
    /\ ColType(file, "tile") \in {"uint64", "int64"}
    /\ ColType(file, "metadata") = "string"

\* C15: on such a file read_metadata raises the not-found ValueError when no
\* row has tile = 0, the malformed ValueError when the metadata of the
\* tile=0 row is NULL, and the JSON parse error when its text is not valid
\* JSON; it returns a value, the parsed text, only when a tile=0 row with
\* valid JSON text exists.
C15_ReadMetadataOutcomes ==
    (result.op = "read_metadata" /\ Filterable)
    => IF Len(SentinelRows) = 0
       THEN result.out = Raised("ValueError", "No metadata row (tile=0) found")
       ELSE IF SentinelRows[1].metadata = Null
       THEN result.out = Raised("ValueError", "Metadata column is NULL in tile=0 row")
       ELSE IF SentinelRows[1].metadata.k = "text"
       THEN result.out.exc = "JSONDecodeError"
       ELSE /\ result.out.exc = ""
            /\ result.out.value = json_loads_doc(SentinelRows[1].metadata.v)

C15_Witness ==
    /\ result.op = "read_metadata"
    /\ Filterable
    /\ Len(TileRows) > 0
    /\ Len(SentinelRows) = 1
    /\ SentinelRows[1].metadata = Null
    /\ result.out.exc = "ValueError"

BuiltRecord == result.out.value.v

\* C16: whatever extension fields are passed, the record create_metadata
\* returns has file_format = 'tilequet' and version = TILEQUET_VERSION.
C16_IdentityKept ==
    result.op = "create_metadata"
    => /\ BuiltRecord.file_format = PyStr("tilequet")
       /\ BuiltRecord.version = PyStr(TILEQUET_VERSION)

\* C17: the record create_metadata returns has no key for an optional
\* argument that was not given: name, description, attribution, layers,
\* center.
C17_OptionalOmitted ==
    result.op = "create_metadata"
    => \A key \in OptionalKeys \cup {"center"} :
           (result.args[key] = PyNone /\ key \notin DOMAIN result.extra)
           => key \notin DOMAIN BuiltRecord

SplitRan == result.op = "split_zoom"

\* a source split-zoom can split: the three container columns and a tile=0
\* row whose metadata text is a JSON object
SourceContainer ==
    /\ file.state = "final"
    /\ file.columns = TILEQUET_SCHEMA
    /\ Declared.exc = ""
    /\ Declared.value.k = "dict"

SourceRowsAt(z) == SelectSeq(TileRows, LAMBDA r : cell_zoom(r.tile) = z)
OutputRows(z) == read_table(outputs[z])

\* C18: split-zoom of such a source exits with code 0 and has written one
\* file per zoom level that occurs among the data rows, and no other; the
\* data rows of the file for a level are the source data rows of that level,
\* each as often as in the source and with its payload unchanged, so every
\* source data row is in exactly one output.
C18_OneOutputPerZoom ==
    (SplitRan /\ SourceContainer)
    => /\ result.out.code = 0
       /\ DOMAIN outputs = {cell_zoom(TileRows[i].tile) : i \in 1..Len(TileRows)}
       /\ \A z \in DOMAIN outputs :
              BagOf(SelectSeq(OutputRows(z), IsData)) = BagOf(SourceRowsAt(z))

C18_Witness ==
    /\ SplitRan
    /\ SourceContainer
    /\ Cardinality(DOMAIN outputs) = 2
    /\ \E z \in DOMAIN outputs : Len(SourceRowsAt(z)) = 2
    /\ \E i \in 1..Len(TileRows) : BLen(TileRows[i].data) > 0

\* C19: every file split-zoom wrote for a zoom level N has the tile=0 row
\* first and after it only data rows of level N in ascending tile order; its
\* metadata has min_zoom = max_zoom = N, num_tiles = the number of those
\* rows, and every other key exactly as in the source metadata.
C19_OutputLayout ==
    (SplitRan /\ SourceContainer)
    => \A z \in DOMAIN outputs :
          LET rows == OutputRows(z)
              parsed == json_loads(rows[1].metadata)
              source == Declared.value.v
              changed == {"min_zoom", "max_zoom", "num_tiles"}
          IN /\ IsSentinel(rows[1])
             /\ \A i \in 2..Len(rows) : IsData(rows[i]) /\ cell_zoom(rows[i].tile) = z
             /\ Ascending(Tail(rows))
             /\ parsed.exc = ""
             /\ parsed.value.k = "dict"
             /\ DOMAIN parsed.value.v = DOMAIN source \cup changed
             /\ parsed.value.v.min_zoom = PyInt(z)
             /\ parsed.value.v.max_zoom = PyInt(z)
             /\ parsed.value.v.num_tiles = PyInt(Len(rows) - 1)
             /\ \A key \in DOMAIN source \ changed : parsed.value.v[key] = source[key]

C19_Witness ==
    /\ SplitRan
    /\ SourceContainer
    /\ ~Ascending(TileRows)
    /\ "name" \in DOMAIN Declared.value.v
    /\ Declared.value.v.num_tiles # PyInt(2)
    /\ \E z \in DOMAIN outputs :
           /\ Len(OutputRows(z)) = 3
           /\ Declared.value.v.max_zoom # PyInt(z)

\* C20: split-zoom of a file that opens and has no tile=0 row exits with
\* code 1 and writes no output file; the source file is unchanged.
C20_NoSentinelFailsFirst ==
    [][(/\ result'.op = "split_zoom"
        /\ file.state = "final"
        /\ "tile" \in ColNames(file)
        /\ Len(SentinelRows) = 0)
       => (/\ result'.out.code = 1
           /\ outputs' = outputs
           /\ outputs' = <<>>
           /\ file' = file)]_vars

C20_Witness ==
    /\ SplitRan
    /\ file.columns = TILEQUET_SCHEMA
    /\ Len(SentinelRows) = 0
    /\ Len(TileRows) > 0
    /\ result.out.code = 1
    /\ outputs = <<>>

\* the row groups of the file that hold data rows only
DataGroups(f) ==
    SelectSeq(f.groups, LAMBDA g : \A i \in 1..Len(g) : IsData(g[i]))

\* C21 as stated: the file of a streaming writer has as many data row
\* groups as there were non-empty flushes (each flush wrote one row group).
C21_OneGroupPerFlush ==
    mode = "stream" => Len(DataGroups(file)) = flushes

\* C21 as the code has it: a non-empty flush writes the whole buffer as
\* consecutive row groups of at most row_group_size rows each,
\* ceil(n / row_group_size) of them for n buffered rows, then leaves the
\* buffer empty and the byte estimate at 0.
C21_FlushWritesWholeBuffer ==
    [][flushes' = flushes + 1
       => LET n == IF result'.op = "add_tile" THEN Len(buffer) + 1 ELSE Len(buffer)
              new == SubSeq(DataGroups(file'), Len(DataGroups(file)) + 1,
                            Len(DataGroups(file')))
          IN /\ buffer' = <<>>
             /\ buffer_bytes' = 0
             /\ Len(Flatten(new)) = n
             /\ Len(new) = (n + row_group_size - 1) \div row_group_size
             /\ \A g \in 1..Len(new) : Len(new[g]) <= row_group_size]_vars

C21_Witness ==
    /\ mode = "stream"
    /\ row_group_size = 1
    /\ flushes = 1
    /\ Len(DataGroups(file)) = 2
    /\ buffer = <<>>
    /\ buffer_bytes = 0

\* C22: in every container a streaming writer has completed, the last row
\* group holds the tile=0 row built from the metadata and nothing else, every
\* earlier row group holds data rows only, and the rows still buffered when
\* close was called are among them: no data row follows the tile=0 row.
C22_SentinelAloneLast ==
    StreamDone
    => /\ file.state = "final"
       /\ Len(file.groups) >= 1
       /\ file.groups[Len(file.groups)] = <<MetadataRow(written.metadata)>>
       /\ Len(DataGroups(file)) = Len(file.groups) - 1
       /\ Len(TileRows) = tile_count
       /\ buffer = <<>>

C22_Witness ==
    /\ StreamDone
    /\ max_memory_bytes = MB
    /\ flushes = 2
    /\ tile_count = 3
    /\ Len(file.groups[Len(file.groups)]) = 1

\* the tile=0 row is missing, or its metadata is NULL, or its text is not JSON
Unparsable ==
    \/ Len(SentinelRows) = 0
    \/ SentinelRows[1].metadata = Null
    \/ SentinelRows[1].metadata.k = "text"

MetadataStageErrors ==
    SelectSeq(result.out.errors,
              LAMBDA e : e.m \in {"No metadata row found (tile=0)",
                                  "Metadata column is NULL in tile=0 row",
                                  "Invalid JSON in metadata"})

\* C23: for a file with an integer tile column and a string metadata column
\* whose tile=0 row is missing, has NULL metadata or holds text that is not
\* JSON, validate_tilequet returns a result whose only errors beyond the
\* schema errors are one metadata-stage error (the invalid-JSON one when the
\* text is not JSON), with metadata None, no warnings and no zoom_levels or
\* metadata entries in stats.
C23_UnparsableHalts ==
    (Validated /\ Filterable /\ Unparsable)
    => /\ result.out.exc = ""
       /\ Len(MetadataStageErrors) = 1
       /\ result.out.errors = validate_schema(file).errors \o MetadataStageErrors
       /\ (Len(SentinelRows) > 0 /\ SentinelRows[1].metadata.k = "text")
              => MetadataStageErrors[1].m = "Invalid JSON in metadata"
       /\ ~result.out.is_valid
       /\ result.out.metadata = PyNone
       /\ result.out.warnings = <<>>
       /\ DOMAIN result.out.stats = {"row_count", "columns"}

C23_Witness ==
    /\ Validated
    /\ Filterable
    /\ Len(SentinelRows) = 1
    /\ SentinelRows[1].metadata = GarbageText
    /\ \E i \in 1..Len(TileRows) : TileRows[i].data # Null /\ BLen(TileRows[i].data) = 0
    /\ Len(result.out.errors) = 1
    /\ result.out.errors[1].m = "Invalid JSON in metadata"

\* a file with the container columns whose tile=0 row parses to a JSON object
ParsesToRecord ==
    /\ validate_schema(file).errors = <<>>
    /\ Declared.exc = ""
    /\ Declared.value.k = "dict"

HasError(m) == \E i \in 1..Len(result.out.errors) : result.out.errors[i].m = m

\* C24: for every such file whose record has the key tile_type with a value
\* other than 'vector', 'raster', '3d', validate_tilequet returns a result
\* with the invalid-tile_type error and is_valid false.
C24_TileTypeChecked ==
    (/\ Validated
     /\ ParsesToRecord
     /\ "tile_type" \in DOMAIN Declared.value.v
     /\ Declared.value.v.tile_type \notin TileTypes)
    => /\ result.out.exc = ""
       /\ HasError("Invalid tile_type")
       /\ ~result.out.is_valid

\* C25: for every such file whose record has a tiling value that does not
\* give tiling.scheme = 'quadbin', whatever the type of that value,
\* validate_tilequet returns a result with the tiling-scheme error and
\* is_valid false.
C25_TilingSchemeChecked ==
    (/\ Validated
     /\ ParsesToRecord
     /\ LET tiling == DictGet(Declared.value, "tiling", EmptyDict)
        IN \/ tiling.k # "dict"
           \/ DictGet(tiling, "scheme", PyNone) # PyStr("quadbin"))
    => /\ result.out.exc = ""
       /\ HasError("Tiling scheme must be 'quadbin'")
       /\ ~result.out.is_valid

TilesAt(z) == {i \in 1..Len(TileRows) : cell_zoom(TileRows[i].tile) = z}

C27_ListUntouched ==
    [][result'.op = "write_tilequet" => tiles' = tiles]_vars

\* C27 as the code has it: write_tilequet creates the file and sorts the
\* caller's list in place: after the call the list holds the same tiles, in
\* ascending tile order, and the metadata record written is the one passed.
C27_ListSortedInPlace ==
    [][result'.op = "write_tilequet"
       => /\ BagOf(tiles') = BagOf(tiles)
          /\ Ascending(tiles')
          /\ DataRows(tiles') = SelectSeq(read_table(file'), IsData)
          /\ file.state = "absent" /\ file'.state = "final"
          /\ json_loads(read_table(file')[1].metadata).value = written'.metadata
          /\ UNCHANGED <<config, writer, outputs, added>>]_vars

C27_Witness ==
    /\ BulkDone
    /\ result.op = "write_tilequet"
    /\ Len(added) = 3
    /\ ~Ascending(added)
    /\ tiles # added
    /\ Ascending(tiles)

\* C28: an add_tile call that raises, on a closed writer or for a payload
\* without a length, leaves the buffer, the byte estimate and tile_count as
\* they were.
C28_FailedAddChangesNothing ==
    [][(result'.op = "add_tile" /\ result'.out.exc # "")
       => UNCHANGED <<buffer, buffer_bytes, tile_count, file>>]_vars

\* the writer was exited without close(metadata) having been called
Abandoned == mode = "stream" /\ closed /\ ~written.done

\* C29: __exit__ on a writer that is not closed finalizes the file with the
\* rows it already holds, the buffered rows staying in the buffer, and sets
\* the closed flag; from then on the file has no tile=0 row, it is never
\* changed again, and every close(metadata) or add_tile raises RuntimeError.
C29_ExitWithoutClose ==
    [][/\ (result'.op = "__exit__" /\ ~closed)
          => /\ closed'
             /\ file'.state = "final"
             /\ read_table(file') = read_table(file)
             /\ buffer' = buffer
       /\ Abandoned
          => /\ file.state = "final"
             /\ SentinelRows = <<>>
             /\ Len(TileRows) + Len(buffer) = tile_count
             /\ file' = file
             /\ closed'
             /\ result'.op \in {"close", "add_tile"}
                   => result'.out.exc = "RuntimeError"]_vars

C29_Witness ==
    /\ Abandoned
    /\ Len(buffer) > 0
    /\ Len(TileRows) > 0
    /\ result.op = "close"
    /\ result.out.exc = "RuntimeError"

\* C30: on every file that opens, validate_tilequet returns a result whose
\* metadata is not None exactly when read_metadata returns, the two values
\* then being equal; and when read_metadata raises, the result has an error
\* of the metadata stage.
C30_ReaderAgrees ==
    (Validated /\ file.state = "final")
    => /\ result.out.exc = ""
       /\ result.out.metadata # PyNone <=> Declared.exc = ""
       /\ Declared.exc = "" => result.out.metadata = Declared.value
       /\ Declared.exc # "" => validate_metadata(file).errors # <<>>

====
